---- MODULE Spec2Model ----
(***************************************************************************)
(* The CRM entity store (useCRMStore): four record collections with        *)
(* add / update / delete per collection.  Identifiers come from            *)
(* crypto.randomUUID(), timestamps from new Date().  Both stores are       *)
(* wrapped in persist(), which keeps a snapshot of each in localStorage.   *)
(* The session store (useAuthStore) holds the signed-in user; the list     *)
(* pages and the dashboards derive their views from the collections.       *)
(***************************************************************************)
EXTENDS Integers, Sequences, FiniteSets, TLC

\* ---------------------------------------------------------------- bounds
\* Number of crypto.randomUUID() calls in a run of Spec (its ids are 1..MaxIds).
MaxIds == 2
\* Number of add calls in a run of SpecOne, which starts from a populated store.
MaxAdds == 1
\* Last reading of the millisecond clock (readings are 0..MaxClock).
MaxClock == 1
\* Number of login calls in a run of SpecAuth.
MaxLogins == 2
\* Number of records a list page of SpecViews shows at most.
MaxRows == 2

VARIABLES
    contacts,   \* Contact[]
    leads,      \* Lead[]
    deals,      \* Deal[]
    tasks,      \* Task[]
    now,        \* the value new Date() yields when read
    nextId,     \* the next value crypto.randomUUID() yields
    lastId,     \* the last value crypto.randomUUID() may yield in this run
    live,       \* the collections this run's calls work on
    last,       \* the store call that ran last: its name, its id, the fields its
                \* argument names, what it returned
    storage,    \* localStorage: the item stored under each store's key
    user,       \* AuthState.user
    isAuthenticated,    \* AuthState.isAuthenticated
    pending,    \* the login calls waiting on their timer, oldest first
    loginCalls, \* the number of login calls made so far
    searchTerm,         \* the mounted list page's search box
    statusFilter,       \* the mounted list page's status select
    priorityFilter,     \* the Tasks page's priority select
    activeDeal,         \* the Pipeline page's dragged deal (useState<Deal | null>)
    location            \* the router's location: the path in the address bar

\* CRMState's collections, AuthState's fields, the pages' useState values and
\* the router's location.
crmVars == <<contacts, leads, deals, tasks>>
authVars == <<user, isAuthenticated, pending, loginCalls>>
pageVars == <<searchTerm, statusFilter, priorityFilter, activeDeal, location>>

vars == <<contacts, leads, deals, tasks, now, nextId, lastId, live, last,
          storage, user, isAuthenticated, pending, loginCalls,
          searchTerm, statusFilter, priorityFilter, activeDeal, location>>

\* ------------------------------------------------------------ value sets
Clock == 0..MaxClock

Collections == {"contacts", "leads", "deals", "tasks"}

\* An id string no randomUUID() call ever produced (a caller's own string).
ForeignId == 0

\* The id strings a caller can hold: the ones generated so far and its own.
KnownIds == 0..(nextId - 1)

\* The value of a call whose declared type is void.
Undefined == <<>>

Names == {"Ann", "Bob"}
TagLists == {<<>>, <<"vip">>}
LeadStatuses == {"new", "converted"}
DealStages == {"prospecting", "closed-won"}
TaskStatuses == {"pending", "completed"}
DueDate == 0
\* Lead.value and Deal.value: number
Amount == 100

\* --------------------------------------------------------------- helpers
\* Object spread { ...a, ...b }: b's own fields win, a's other fields stay.
Spread(a, b) ==
    [f \in (DOMAIN a) \cup (DOMAIN b) |-> IF f \in DOMAIN b THEN b[f] ELSE a[f]]

\* The object holding the fields S of r (a Partial<T> cut from a full T).
Pick(r, S) == [f \in S |-> r[f]]

\* { ...input, id: crypto.randomUUID(), createdAt: new Date(), updatedAt: new Date() }
\* The two new Date() expressions are two readings of the clock, c then u.
newRecord(input, id, c, u) ==
    Spread(input, [id |-> id, createdAt |-> c, updatedAt |-> u])

\* The new record put first instead of last.
prependRecord(xs, rec) == <<rec>> \o xs

\* [...state.xs, newX]
appendRecord(xs, rec) == Append(xs, rec)

\* The merge without ...x: the fields updates does not name are lost.
mergeUpdatesOnly(x, updates, t) == Spread(updates, [updatedAt |-> t])

\* The merge without the updatedAt stamp.
mergeUnstamped(x, updates, t) == Spread(x, updates)

\* { ...x, ...updates, updatedAt: new Date() }
mergeUpdates(x, updates, t) ==
    Spread(Spread(x, updates), [updatedAt |-> t])

\* x.id === id
matches(x, id) == x.id = id

\* The map stamping updatedAt on the records it does not match as well.
mapUpdateStampAll(xs, id, updates, t) ==
    [i \in 1..Len(xs) |-> IF matches(xs[i], id) THEN Spread(Spread(xs[i], updates), [updatedAt |-> t])
                                               ELSE Spread(xs[i], [updatedAt |-> t])]

\* state.xs.map((x) => x.id === id ? { ...x, ...updates, updatedAt: new Date() } : x)
mapUpdate(xs, id, updates, t) ==
    [i \in 1..Len(xs) |-> IF matches(xs[i], id) THEN mergeUpdates(xs[i], updates, t) ELSE xs[i]]

\* state.xs.filter((x) => x.id !== id)
filterOut(xs, id) == SelectSeq(xs, LAMBDA x : ~matches(x, id))

\* An add handing back the new record's id.
addResultId(rec) == <<rec.id>>

\* What an add operation hands back to its caller: (...) => void, no return statement.
addResult(rec) == Undefined

\* --------------------------------------------------------- persistence
\* user: null, and the item of a key nothing was stored under.
Null == <<>>

\* persist(..., { name: 'crm-data' }) and persist(..., { name: 'crm-auth' })
CrmKey == "crm-data"
AuthKey == "crm-auth"

\* The fields the interfaces type as Date.
DateFields == {"createdAt", "updatedAt", "dueDate", "closeDate"}

\* A Date holds a clock reading (0, 1, ...).  The text JSON.stringify writes
\* for the Date of reading t is a string, not a Date: texts are written as the
\* negative numbers, -(t + 1) for reading t, so that no text equals a Date.
toJSON(t) == 0 - (t + 1)
IsDate(v) == v >= 0
IsText(v) == v < 0

\* JSON.stringify of a value a date field holds: a Date becomes its text, a
\* string stays a string.
jsonValue(v) == IF IsDate(v) THEN toJSON(v) ELSE v
jsonField(r, f) == IF f \in DOMAIN r THEN [r EXCEPT ![f] = jsonValue(@)] ELSE r

\* JSON.stringify of a record: its date fields as JSON writes them, every
\* other field as it is.
stringifyRecord(r) ==
    jsonField(jsonField(jsonField(jsonField(r, "createdAt"), "updatedAt"), "dueDate"), "closeDate")
stringifyList(xs) == [i \in 1..Len(xs) |-> stringifyRecord(xs[i])]

\* The item persist() stores for the entity store, and for the session store.
crmSnapshot(cs, ls, ds, ts) ==
    [state |-> [contacts |-> stringifyList(cs), leads |-> stringifyList(ls),
                deals |-> stringifyList(ds), tasks |-> stringifyList(ts)],
     version |-> 0]
authSnapshot(u, a) == [state |-> [user |-> u, isAuthenticated |-> a], version |-> 0]

\* A persist() under another store's key.
persistCRMUnderAuthKey ==
    storage' = [storage EXCEPT ![AuthKey] = crmSnapshot(contacts', leads', deals', tasks')]

\* persist((set) => ..., { name: 'crm-data' }): every set() of the entity store
\* stores the new state under the key.
persistCRM ==
    storage' = [storage EXCEPT ![CrmKey] = crmSnapshot(contacts', leads', deals', tasks')]

\* persist((set) => ..., { name: 'crm-auth' }): every set() of the session store
\* stores the new state under the key.
persistAuth ==
    storage' = [storage EXCEPT ![AuthKey] = authSnapshot(user', isAuthenticated')]

\* Nobody signed in, no login under way.
SignedOut ==
    /\ user = Null
    /\ isAuthenticated = FALSE
    /\ pending = <<>>
    /\ loginCalls = 0

\* A page as mounted: useState(''), useState('all') and useState(null).
PageMounted ==
    /\ searchTerm = <<>>
    /\ statusFilter = "all"
    /\ priorityFilter = "all"
    /\ activeDeal = Null

\* The second new Date() of an add reads the clock at or after the first.
SecondReading == {t \in Clock : t = now \/ t = now + 1}

\* ---------------------------------------------------------------- inputs
\* Omit<Contact, 'id' | 'createdAt' | 'updatedAt'>
ContactInputs == [name : Names, tags : {<<>>}]
\* Omit<Lead, 'id' | 'createdAt' | 'updatedAt'>
LeadInputs == [status : LeadStatuses, value : {Amount}]
\* Omit<Deal, 'id' | 'createdAt' | 'updatedAt'>
DealInputs == [stage : DealStages, contactId : {1}, value : {Amount}, closeDate : {DueDate}]
\* Omit<Task, 'id' | 'createdAt' | 'updatedAt'>
TaskInputs == [status : TaskStatuses, dueDate : {DueDate}]

\* Partial<Contact> as the pages build it: the contact form's fields with tags: [].
ContactFormUpdates ==
    {Pick(r, S) : r \in [name : Names, tags : {<<>>}],
                  S \in {{}, {"name"}, {"name", "tags"}}}
\* Partial<Lead> as the pages build it.
LeadFormUpdates == {Pick(r, S) : r \in [status : LeadStatuses], S \in {{}, {"status"}}}
\* Partial<Deal> as the pipeline builds it: { stage }.
DealFormUpdates == {Pick(r, S) : r \in [stage : DealStages], S \in {{}, {"stage"}}}
\* Partial<Task> as the pages build it: { status }, or the task form's fields.
TaskFormUpdates ==
    {Pick(r, S) : r \in [status : TaskStatuses, dueDate : {DueDate}],
                  S \in {{}, {"status"}, {"status", "dueDate"}}}

\* Partial<T> naming updatedAt alone.
StampUpdates == {[updatedAt |-> t] : t \in Clock}

\* Partial<T> also admits the store-assigned fields id, createdAt and updatedAt.
StoreFieldUpdates ==
    {Pick(r, S) : r \in [id : KnownIds, createdAt : Clock, updatedAt : Clock],
                  S \in {{"id"}, {"createdAt"}, {"updatedAt"}}}

\* Partial<Contact>
ContactUpdates == {[name |-> n] : n \in Names} \cup StoreFieldUpdates
\* Partial<Lead>
LeadUpdates == {[status |-> st] : st \in LeadStatuses} \cup StoreFieldUpdates
\* Partial<Deal>
DealUpdates == {[stage |-> st] : st \in DealStages} \cup StoreFieldUpdates
\* Partial<Task>
TaskUpdates == {[status |-> st] : st \in TaskStatuses} \cup StoreFieldUpdates

\* ------------------------------------------------------------------ Init
NoCall == [op |-> "none", id |-> ForeignId, named |-> {}, ret |-> Undefined]

\* The store as created: four empty collections.
Init ==
    /\ contacts = <<>>
    /\ leads = <<>>
    /\ deals = <<>>
    /\ tasks = <<>>
    /\ now = 0
    /\ nextId = 1
    /\ lastId = MaxIds
    /\ live = Collections
    /\ last = NoCall
    /\ storage = [k \in {CrmKey, AuthKey} |-> Null]
    /\ SignedOut
    /\ PageMounted
    /\ location = "/login"

\* --------------------------------------------------------------- actions
\* Time passes between two handlers.
Tick ==
    /\ now < MaxClock
    /\ now' = now + 1
    /\ UNCHANGED <<contacts, leads, deals, tasks, nextId, lastId, live, last,
                 storage, authVars, pageVars>>

Called(op, id, arg, ret) ==
    last' = [op |-> op, id |-> id, named |-> DOMAIN arg, ret |-> ret]

addContact(contact, u) ==
    /\ nextId <= lastId
    /\ LET newContact == newRecord(contact, nextId, now, u)
       IN  /\ contacts' = appendRecord(contacts, newContact)
           /\ Called("addContact", nextId, contact, addResult(newContact))
    /\ nextId' = nextId + 1
    /\ now' = u
    /\ UNCHANGED <<leads, deals, tasks, lastId, live, authVars, pageVars>>
    /\ persistCRM

updateContact(id, updates) ==
    /\ contacts' = mapUpdate(contacts, id, updates, now)
    /\ Called("updateContact", id, updates, Undefined)
    /\ UNCHANGED <<leads, deals, tasks, now, nextId, lastId, live, authVars, pageVars>>
    /\ persistCRM

\* A delete that cascades to the deals referring to the contact.
deleteContactCascade(id) ==
    /\ contacts' = filterOut(contacts, id)
    /\ deals' = SelectSeq(deals, LAMBDA d : d.contactId # id)
    /\ Called("deleteContact", id, <<>>, Undefined)
    /\ UNCHANGED <<leads, tasks, now, nextId, lastId, live, authVars, pageVars>>
    /\ persistCRM

deleteContact(id) ==
    /\ contacts' = filterOut(contacts, id)
    /\ Called("deleteContact", id, <<>>, Undefined)
    /\ UNCHANGED <<leads, deals, tasks, now, nextId, lastId, live, authVars, pageVars>>
    /\ persistCRM

addLead(lead, u) ==
    /\ nextId <= lastId
    /\ LET newLead == newRecord(lead, nextId, now, u)
       IN  /\ leads' = appendRecord(leads, newLead)
           /\ Called("addLead", nextId, lead, addResult(newLead))
    /\ nextId' = nextId + 1
    /\ now' = u
    /\ UNCHANGED <<contacts, deals, tasks, lastId, live, authVars, pageVars>>
    /\ persistCRM

updateLead(id, updates) ==
    /\ leads' = mapUpdate(leads, id, updates, now)
    /\ Called("updateLead", id, updates, Undefined)
    /\ UNCHANGED <<contacts, deals, tasks, now, nextId, lastId, live, authVars, pageVars>>
    /\ persistCRM

deleteLead(id) ==
    /\ leads' = filterOut(leads, id)
    /\ Called("deleteLead", id, <<>>, Undefined)
    /\ UNCHANGED <<contacts, deals, tasks, now, nextId, lastId, live, authVars, pageVars>>
    /\ persistCRM

addDeal(deal, u) ==
    /\ nextId <= lastId
    /\ LET newDeal == newRecord(deal, nextId, now, u)
       IN  /\ deals' = appendRecord(deals, newDeal)
           /\ Called("addDeal", nextId, deal, addResult(newDeal))
    /\ nextId' = nextId + 1
    /\ now' = u
    /\ UNCHANGED <<contacts, leads, tasks, lastId, live, authVars, pageVars>>
    /\ persistCRM

updateDeal(id, updates) ==
    /\ deals' = mapUpdate(deals, id, updates, now)
    /\ Called("updateDeal", id, updates, Undefined)
    /\ UNCHANGED <<contacts, leads, tasks, now, nextId, lastId, live, authVars, pageVars>>
    /\ persistCRM

deleteDeal(id) ==
    /\ deals' = filterOut(deals, id)
    /\ Called("deleteDeal", id, <<>>, Undefined)
    /\ UNCHANGED <<contacts, leads, tasks, now, nextId, lastId, live, authVars, pageVars>>
    /\ persistCRM

addTask(task, u) ==
    /\ nextId <= lastId
    /\ LET newTask == newRecord(task, nextId, now, u)
       IN  /\ tasks' = appendRecord(tasks, newTask)
           /\ Called("addTask", nextId, task, addResult(newTask))
    /\ nextId' = nextId + 1
    /\ now' = u
    /\ UNCHANGED <<contacts, leads, deals, lastId, live, authVars, pageVars>>
    /\ persistCRM

updateTask(id, updates) ==
    /\ tasks' = mapUpdate(tasks, id, updates, now)
    /\ Called("updateTask", id, updates, Undefined)
    /\ UNCHANGED <<contacts, leads, deals, now, nextId, lastId, live, authVars, pageVars>>
    /\ persistCRM

deleteTask(id) ==
    /\ tasks' = filterOut(tasks, id)
    /\ Called("deleteTask", id, <<>>, Undefined)
    /\ UNCHANGED <<contacts, leads, deals, now, nextId, lastId, live, authVars, pageVars>>
    /\ persistCRM

\* ------------------------------------------- Spec: any caller of the store
AddContactStep == \E c \in ContactInputs, u \in SecondReading : addContact(c, u)
UpdateContactStep == \E id \in KnownIds, p \in ContactUpdates : updateContact(id, p)
DeleteContactStep == \E id \in KnownIds : deleteContact(id)
AddLeadStep == \E l \in LeadInputs, u \in SecondReading : addLead(l, u)
UpdateLeadStep == \E id \in KnownIds, p \in LeadUpdates : updateLead(id, p)
DeleteLeadStep == \E id \in KnownIds : deleteLead(id)
AddDealStep == \E d \in DealInputs, u \in SecondReading : addDeal(d, u)
UpdateDealStep == \E id \in KnownIds, p \in DealUpdates : updateDeal(id, p)
DeleteDealStep == \E id \in KnownIds : deleteDeal(id)
AddTaskStep == \E t \in TaskInputs, u \in SecondReading : addTask(t, u)
UpdateTaskStep == \E id \in KnownIds, p \in TaskUpdates : updateTask(id, p)
DeleteTaskStep == \E id \in KnownIds : deleteTask(id)

Next ==
    \/ Tick
    \/ AddContactStep
    \/ UpdateContactStep
    \/ DeleteContactStep
    \/ AddLeadStep
    \/ UpdateLeadStep
    \/ DeleteLeadStep
    \/ AddDealStep
    \/ UpdateDealStep
    \/ DeleteDealStep
    \/ AddTaskStep
    \/ UpdateTaskStep
    \/ DeleteTaskStep

Spec == Init /\ [][Next]_vars

\* ---------------- SpecOne: one collection driven from a populated store
\* The store after addContact, addDeal, addLead and addTask ran once each at
\* clock reading 0 (ids 1..4; the deal refers to the contact).
Populated ==
    /\ contacts = appendRecord(<<>>, newRecord([name |-> "Ann", tags |-> <<"vip">>], 1, 0, 0))
    /\ deals = appendRecord(<<>>, newRecord([stage |-> "prospecting", contactId |-> 1,
                                                 value |-> Amount, closeDate |-> DueDate], 2, 0, 0))
    /\ leads = appendRecord(<<>>, newRecord([status |-> "new", value |-> Amount], 3, 0, 0))
    /\ tasks = appendRecord(<<>>, newRecord([status |-> "pending", dueDate |-> DueDate], 4, 0, 0))
    /\ nextId = 5

\* The ids a caller of collection c's operations holds: the ids of the records
\* c has held, and its own string.
SeedId == [contacts |-> 1, deals |-> 2, leads |-> 3, tasks |-> 4]
IdsOf(c) == {ForeignId, SeedId[c]} \cup {i \in KnownIds : i > 4}

InitOne ==
    /\ Populated
    /\ now = 0
    /\ lastId = 4 + MaxAdds
    /\ live \in {{c} : c \in Collections}
    /\ last = NoCall
    /\ storage = [k \in {CrmKey, AuthKey} |->
                    IF k = CrmKey THEN crmSnapshot(contacts, leads, deals, tasks) ELSE Null]
    /\ SignedOut
    /\ PageMounted
    /\ location = "/login"

AddContactOne ==
    "contacts" \in live /\ \E c \in ContactInputs, u \in SecondReading : addContact(c, u)
UpdateContactOne ==
    "contacts" \in live /\ \E id \in IdsOf("contacts"), p \in ContactFormUpdates \cup StampUpdates : updateContact(id, p)
DeleteContactOne == "contacts" \in live /\ \E id \in IdsOf("contacts") : deleteContact(id)
AddLeadOne ==
    "leads" \in live /\ \E l \in LeadInputs, u \in SecondReading : addLead(l, u)
UpdateLeadOne ==
    "leads" \in live /\ \E id \in IdsOf("leads"), p \in LeadFormUpdates \cup StampUpdates : updateLead(id, p)
DeleteLeadOne == "leads" \in live /\ \E id \in IdsOf("leads") : deleteLead(id)
AddDealOne ==
    "deals" \in live /\ \E d \in DealInputs, u \in SecondReading : addDeal(d, u)
UpdateDealOne ==
    "deals" \in live /\ \E id \in IdsOf("deals"), p \in DealFormUpdates \cup StampUpdates : updateDeal(id, p)
DeleteDealOne == "deals" \in live /\ \E id \in IdsOf("deals") : deleteDeal(id)
AddTaskOne ==
    "tasks" \in live /\ \E t \in TaskInputs, u \in SecondReading : addTask(t, u)
UpdateTaskOne ==
    "tasks" \in live /\ \E id \in IdsOf("tasks"), p \in TaskFormUpdates \cup StampUpdates : updateTask(id, p)
DeleteTaskOne == "tasks" \in live /\ \E id \in IdsOf("tasks") : deleteTask(id)

NextOne ==
    \/ Tick
    \/ AddContactOne
    \/ UpdateContactOne
    \/ DeleteContactOne
    \/ AddLeadOne
    \/ UpdateLeadOne
    \/ DeleteLeadOne
    \/ AddDealOne
    \/ UpdateDealOne
    \/ DeleteDealOne
    \/ AddTaskOne
    \/ UpdateTaskOne
    \/ DeleteTaskOne

SpecOne == InitOne /\ [][NextOne]_vars

\* ------------- SpecAny: SpecOne with any Partial<T> handed to the updates
UpdateContactAny ==
    "contacts" \in live /\ \E id \in IdsOf("contacts"), p \in ContactUpdates : updateContact(id, p)
UpdateLeadAny ==
    "leads" \in live /\ \E id \in IdsOf("leads"), p \in LeadUpdates : updateLead(id, p)
UpdateDealAny ==
    "deals" \in live /\ \E id \in IdsOf("deals"), p \in DealUpdates : updateDeal(id, p)
UpdateTaskAny ==
    "tasks" \in live /\ \E id \in IdsOf("tasks"), p \in TaskUpdates : updateTask(id, p)

NextAny ==
    \/ Tick
    \/ AddContactOne
    \/ UpdateContactAny
    \/ DeleteContactOne
    \/ AddLeadOne
    \/ UpdateLeadAny
    \/ DeleteLeadOne
    \/ AddDealOne
    \/ UpdateDealAny
    \/ DeleteDealOne
    \/ AddTaskOne
    \/ UpdateTaskAny
    \/ DeleteTaskOne

SpecAny == InitOne /\ [][NextAny]_vars

\* ------------------------- SpecReload: SpecOne with reloads of the page
\* What persist() makes of a store at creation: the stored item's state spread
\* over the initial state, the initial state alone when nothing is stored.
\* The item is read with JSON.parse and no reviver: a stored text is a string.
rehydrate(initial, item) == IF item = Null THEN initial ELSE Spread(initial, item.state)

\* The page is loaded again: both stores are created anew and rehydrated, the
\* timers of the page that went away never fire, the page at the address is
\* mounted anew.
Reload ==
    /\ LET crm == rehydrate([contacts |-> <<>>, leads |-> <<>>, deals |-> <<>>, tasks |-> <<>>],
                            storage[CrmKey])
           auth == rehydrate([user |-> Null, isAuthenticated |-> FALSE], storage[AuthKey])
       IN  /\ contacts' = crm.contacts
           /\ leads' = crm.leads
           /\ deals' = crm.deals
           /\ tasks' = crm.tasks
           /\ user' = auth.user
           /\ isAuthenticated' = auth.isAuthenticated
    /\ pending' = <<>>
    /\ searchTerm' = <<>>
    /\ statusFilter' = "all"
    /\ priorityFilter' = "all"
    /\ activeDeal' = Null
    /\ Called("rehydrate", ForeignId, <<>>, Undefined)
    /\ UNCHANGED <<now, nextId, lastId, live, loginCalls, storage, location>>

NextReload ==
    \/ NextOne
    \/ Reload

SpecReload == InitOne /\ [][NextReload]_vars

\* ----------------------------------------- the session store (useAuthStore)
Emails == {"admin@crm.com", "manager@crm.com", "ann@crm.com"}
Passwords == {"", "secret"}

\* The promise an async function hands back at the call, not yet settled.
Promise == <<"pending">>

\* The mock user with the manager's address given no role of its own.
mockUserNoManager(email) ==
    [id |-> "1",
     name |-> IF email = "admin@crm.com" THEN "Admin User" ELSE "John Doe",
     email |-> email,
     role |-> IF email = "admin@crm.com" THEN "admin" ELSE "salesperson"]

\* const mockUser: User = { id: '1', name: ..., email, role: ... }
mockUser(email) ==
    [id |-> "1",
     name |-> IF email = "admin@crm.com" THEN "Admin User" ELSE "John Doe",
     email |-> email,
     role |-> IF email = "admin@crm.com" THEN "admin"
              ELSE IF email = "manager@crm.com" THEN "manager" ELSE "salesperson"]

\* A login that turns an empty password down.
loginResultChecked(email, password) ==
    IF password = ""
    THEN [user |-> Null, isAuthenticated |-> FALSE, ret |-> FALSE]
    ELSE [user |-> mockUser(email), isAuthenticated |-> TRUE, ret |-> TRUE]

\* A login that sets the user and leaves the flag as it was.
loginResultUserOnly(email, password) ==
    [user |-> mockUser(email), isAuthenticated |-> isAuthenticated, ret |-> TRUE]

\* What login(email, password) does once its timer has fired:
\* set({ user: mockUser, isAuthenticated: true }); return true;
loginResult(email, password) ==
    [user |-> mockUser(email), isAuthenticated |-> TRUE, ret |-> TRUE]

\* login(email, password) up to its await: the 1000 ms timer is started and the
\* caller holds a pending promise.
login(email, password) ==
    /\ loginCalls < MaxLogins
    /\ loginCalls' = loginCalls + 1
    /\ pending' = Append(pending, [n |-> loginCalls + 1, email |-> email, password |-> password])
    /\ Called("login", loginCalls + 1, [email |-> email, password |-> password], Promise)
    /\ UNCHANGED <<crmVars, now, nextId, lastId, live, storage, user, isAuthenticated, pageVars>>

\* The oldest timer fires (equal delays fire in the order they were set) and
\* the login that waited on it runs to its end.
loginResolved ==
    /\ pending # <<>>
    /\ LET call == Head(pending)
           res == loginResult(call.email, call.password)
       IN  /\ user' = res.user
           /\ isAuthenticated' = res.isAuthenticated
           /\ Called("loginResolved", call.n, call, <<res.ret>>)
    /\ pending' = Tail(pending)
    /\ UNCHANGED <<crmVars, now, nextId, lastId, live, loginCalls, pageVars>>
    /\ persistAuth

\* A logout that also drops the logins under way.
logoutCancelling ==
    /\ user' = Null
    /\ isAuthenticated' = FALSE
    /\ pending' = <<>>
    /\ Called("logout", ForeignId, <<>>, Undefined)
    /\ UNCHANGED <<crmVars, now, nextId, lastId, live, loginCalls, pageVars>>
    /\ persistAuth

\* A logout that clears the user and keeps the flag.
logoutKeepingFlag ==
    /\ user' = Null
    /\ Called("logout", ForeignId, <<>>, Undefined)
    /\ UNCHANGED <<crmVars, now, nextId, lastId, live, isAuthenticated, pending, loginCalls, pageVars>>
    /\ persistAuth

\* logout: set({ user: null, isAuthenticated: false })
logout ==
    /\ user' = Null
    /\ isAuthenticated' = FALSE
    /\ Called("logout", ForeignId, <<>>, Undefined)
    /\ UNCHANGED <<crmVars, now, nextId, lastId, live, pending, loginCalls, pageVars>>
    /\ persistAuth

\* An updateUser that makes a user of the updates when there is none.
mergeUserCreating(u, updates) == IF u # Null THEN Spread(u, updates) ELSE updates

\* state.user ? { ...state.user, ...updates } : null
mergeUser(u, updates) == IF u # Null THEN Spread(u, updates) ELSE Null

\* updateUser: set((state) => ({ user: ... }))
updateUser(updates) ==
    /\ user' = mergeUser(user, updates)
    /\ Called("updateUser", ForeignId, updates, Undefined)
    /\ UNCHANGED <<crmVars, now, nextId, lastId, live, isAuthenticated, pending, loginCalls, pageVars>>
    /\ persistAuth

\* Partial<User>: the profile form's { name, email }, and others a caller may pass.
UserUpdates ==
    {Pick(r, S) : r \in [name : {"Ann"}, email : {"ann@crm.com"}, role : {"admin"}],
                  S \in {{}, {"name", "email"}, {"role"}}}

\* -------------- SpecAuth: the session store, with the entity store in use
InitAuth ==
    /\ Populated
    /\ now = 0
    /\ lastId = 4
    /\ live = {"leads"}
    /\ last = NoCall
    /\ storage = [k \in {CrmKey, AuthKey} |->
                    IF k = CrmKey THEN crmSnapshot(contacts, leads, deals, tasks) ELSE Null]
    /\ SignedOut
    /\ PageMounted
    /\ location = "/login"

LoginStep == \E e \in Emails, p \in Passwords : login(e, p)
UpdateUserStep == \E p \in UserUpdates : updateUser(p)

NextAuth ==
    \/ LoginStep
    \/ loginResolved
    \/ logout
    \/ UpdateUserStep
    \/ UpdateLeadOne
    \/ DeleteLeadOne

SpecAuth == InitAuth /\ [][NextAuth]_vars

\* The event loop runs: a timer that is due fires.
SpecAuthFair == SpecAuth /\ WF_vars(loginResolved)

\* ------------------------------------------------------- the list pages
\* The text fields a search reads are written letter by letter: 'Ab' is
\* <<"A", "b">>, '' is <<>>.
\* String.prototype.toLowerCase(), on the letters of the model.
lowerChar(ch) == CASE ch = "A" -> "a" [] ch = "B" -> "b" [] OTHER -> ch
toLowerCase(str) == [i \in 1..Len(str) |-> lowerChar(str[i])]

\* String.prototype.includes(): sub is found in str at some place.
includes(str, sub) ==
    \E k \in 0..Len(str) :
        k + Len(sub) <= Len(str) /\ SubSeq(str, k + 1, k + Len(sub)) = sub

Priorities == {"low", "high"}

\* The Tasks page's filter reading the title alone.
filteredTasksTitleOnly ==
    SelectSeq(tasks, LAMBDA task :
        LET matchesSearch == includes(toLowerCase(task.title), toLowerCase(searchTerm))
            matchesStatus == statusFilter = "all" \/ task.status = statusFilter
            matchesPriority == priorityFilter = "all" \/ task.priority = priorityFilter
        IN  matchesSearch /\ matchesStatus /\ matchesPriority)

\* const filteredTasks = tasks.filter(task => ...)
filteredTasks ==
    SelectSeq(tasks, LAMBDA task :
        LET matchesSearch ==
                \/ includes(toLowerCase(task.title), toLowerCase(searchTerm))
                \/ includes(toLowerCase(task.description), toLowerCase(searchTerm))
            matchesStatus == statusFilter = "all" \/ task.status = statusFilter
            matchesPriority == priorityFilter = "all" \/ task.priority = priorityFilter
        IN  matchesSearch /\ matchesStatus /\ matchesPriority)

\* const filteredLeads = leads.filter(lead => ...)
filteredLeads ==
    SelectSeq(leads, LAMBDA lead :
        LET matchesSearch ==
                \/ includes(toLowerCase(lead.name), toLowerCase(searchTerm))
                \/ includes(toLowerCase(lead.email), toLowerCase(searchTerm))
                \/ includes(toLowerCase(lead.company), toLowerCase(searchTerm))
            matchesStatus == statusFilter = "all" \/ lead.status = statusFilter
        IN  matchesSearch /\ matchesStatus)

\* const filteredContacts = contacts.filter(contact => ...)
filteredContacts ==
    SelectSeq(contacts, LAMBDA contact :
        \/ includes(toLowerCase(contact.name), toLowerCase(searchTerm))
        \/ includes(toLowerCase(contact.email), toLowerCase(searchTerm))
        \/ includes(toLowerCase(contact.company), toLowerCase(searchTerm)))

\* onChange={(e) => setSearchTerm(e.target.value)}
setSearchTerm(term) ==
    /\ searchTerm' = term
    /\ UNCHANGED <<crmVars, now, nextId, lastId, live, last, storage, authVars,
                   statusFilter, priorityFilter, activeDeal, location>>

\* onClick={() => setStatusFilter(status)}: the Tasks and the Leads page.
setStatusFilter(status) ==
    /\ live \subseteq {"tasks", "leads"}
    /\ statusFilter' = status
    /\ UNCHANGED <<crmVars, now, nextId, lastId, live, last, storage, authVars,
                   searchTerm, priorityFilter, activeDeal, location>>

\* onClick={() => setPriorityFilter(priority)}: the Tasks page.
setPriorityFilter(priority) ==
    /\ live = {"tasks"}
    /\ priorityFilter' = priority
    /\ UNCHANGED <<crmVars, now, nextId, lastId, live, last, storage, authVars,
                   searchTerm, statusFilter, activeDeal, location>>

\* ------------------- SpecViews: one list page over the records of a store
\* What the user types into the search box.
SearchTerms == {<<>>, <<"a">>, <<"B">>, <<"a", "b">>}

\* The records the forms make, the fields the pages filter on.
TaskRows ==
    [title : {<<"A", "b">>, <<"b">>}, description : {<<>>, <<"a">>},
     status : TaskStatuses, priority : Priorities, dueDate : {DueDate}]
LeadRows ==
    [name : {<<"A", "b">>, <<"b">>}, email : {<<"a">>}, company : {<<"B">>, <<"b", "a">>},
     status : LeadStatuses, value : {Amount}]
ContactRows ==
    [name : {<<"A", "b">>, <<"b">>}, email : {<<"a">>}, company : {<<"B">>, <<"b", "a">>},
     tags : {<<>>}]

\* The collections that adds of up to MaxRows of the rows leave in the store.
StoredRows(Rows) ==
    {[i \in DOMAIN rows |-> newRecord(rows[i], i, 0, 0)] :
        rows \in UNION {[1..n -> Rows] : n \in 0..MaxRows}}

\* The statuses the mounted page's status buttons offer.
StatusesOf(c) ==
    CASE c = "tasks" -> TaskStatuses [] c = "leads" -> LeadStatuses [] OTHER -> {}

InitViews ==
    /\ live \in {{"tasks"}, {"leads"}, {"contacts"}}
    /\ contacts \in StoredRows(IF "contacts" \in live THEN ContactRows ELSE {})
    /\ leads \in StoredRows(IF "leads" \in live THEN LeadRows ELSE {})
    /\ deals = <<>>
    /\ tasks \in StoredRows(IF "tasks" \in live THEN TaskRows ELSE {})
    /\ now = 0
    /\ nextId = Len(contacts) + Len(leads) + Len(tasks) + 1
    /\ lastId = Len(contacts) + Len(leads) + Len(tasks)
    /\ last = NoCall
    /\ user = mockUser("ann@crm.com")
    /\ isAuthenticated = TRUE
    /\ pending = <<>>
    /\ loginCalls = 1
    /\ storage = [k \in {CrmKey, AuthKey} |->
                    IF k = CrmKey THEN crmSnapshot(contacts, leads, deals, tasks)
                                  ELSE authSnapshot(user, isAuthenticated)]
    /\ PageMounted
    /\ location \in {"/" \o c : c \in live}

SetSearchTermStep == \E term \in SearchTerms : setSearchTerm(term)
SetStatusFilterStep ==
    \E status \in {"all"} \cup UNION {StatusesOf(c) : c \in live} : setStatusFilter(status)
SetPriorityFilterStep == \E priority \in {"all"} \cup Priorities : setPriorityFilter(priority)

NextViews ==
    \/ SetSearchTermStep
    \/ SetStatusFilterStep
    \/ SetPriorityFilterStep

SpecViews == InitViews /\ [][NextViews]_vars

\* ------------------------------------------- the figures the pages show
\* A number is written <<n, d>> for n / d in lowest terms, d > 0; <<0, 0>> is
\* NaN and <<1, 0>> is Infinity, what a division by zero yields.
Zero == <<0, 1>>
NaN == <<0, 0>>
Infinity == <<1, 0>>
IsFinite(q) == q[2] # 0

RECURSIVE gcd(_, _)
gcd(a, b) == IF b = 0 THEN a ELSE gcd(b, a % b)

\* a / b, for counts and sums a >= 0 and b >= 0.
quotient(a, b) ==
    IF b = 0 THEN (IF a = 0 THEN NaN ELSE Infinity)
    ELSE <<a \div gcd(a, b), b \div gcd(a, b)>>

\* q * k, for an integer k > 0.
times(q, k) == IF IsFinite(q) THEN quotient(q[1] * k, q[2]) ELSE q

\* Math.round(q): the nearest integer, halves upwards.
round(q) == IF IsFinite(q) THEN <<(2 * q[1] + q[2]) \div (2 * q[2]), 1>> ELSE q

\* xs.reduce((sum, x) => sum + x.value, 0)
RECURSIVE sumValue(_)
sumValue(xs) == IF xs = <<>> THEN 0 ELSE Head(xs).value + sumValue(Tail(xs))

IsConverted(lead) == lead.status = "converted"
IsWon(deal) == deal.stage = "closed-won"

\* leads.filter(lead => lead.status === 'converted').length
convertedLeads == Len(SelectSeq(leads, IsConverted))
\* deals.filter(deal => deal.stage === 'closed-won').length
wonDeals == Len(SelectSeq(deals, IsWon))

\* The dashboard's rate without the factor 100.
dashboardConversionFraction ==
    IF Len(leads) > 0 THEN quotient(convertedLeads, Len(leads)) ELSE Zero

\* Dashboard: totalLeads > 0 ? (convertedLeads / totalLeads) * 100 : 0
dashboardConversionRate ==
    IF Len(leads) > 0 THEN times(quotient(convertedLeads, Len(leads)), 100) ELSE Zero

\* Analytics: leads.length > 0 ? (leads.filter(...).length / leads.length) * 100 : 0
analyticsConversionRate ==
    IF Len(leads) > 0 THEN times(quotient(convertedLeads, Len(leads)), 100) ELSE Zero

\* Analytics: deals.filter(deal => deal.stage === 'closed-won').reduce(...)
totalRevenue == sumValue(SelectSeq(deals, IsWon))

\* The average deal size without its guard.
avgDealSizeUnguarded == quotient(totalRevenue, wonDeals)

\* Analytics: deals.filter(...).length > 0 ? totalRevenue / deals.filter(...).length : 0
avgDealSize ==
    IF wonDeals > 0 THEN quotient(totalRevenue, wonDeals) ELSE Zero

\* Leads: leads.length > 0 ? Math.round(leads.reduce(...) / leads.length) : 0,
\* the number the page then formats.
leadsAvgValue ==
    IF Len(leads) > 0 THEN round(quotient(sumValue(leads), Len(leads))) ELSE Zero

\* Pipeline: deals.length > 0 ? (deals.filter(...).length / deals.length) * 100 : 0
pipelineConversionRate ==
    IF Len(deals) > 0 THEN times(quotient(wonDeals, Len(deals)), 100) ELSE Zero

\* ------------------------------------------------------ the Pipeline page
\* pipelineStages: the ids of the six columns, in the order shown.
pipelineStages ==
    <<"prospecting", "qualification", "proposal", "negotiation", "closed-won", "closed-lost">>
StageIds == {pipelineStages[i] : i \in DOMAIN pipelineStages}

\* The column totals summed over every deal, whatever its stage.
getDealsOfAnyStage(stage) == deals

\* deals.filter(deal => deal.stage === stage)
getDealsByStage(stage) == SelectSeq(deals, LAMBDA deal : deal.stage = stage)

\* PipelineColumn: deals.reduce((sum, deal) => sum + deal.value, 0) and
\* deals.length over the deals handed to the column.
totalValue(stage) == sumValue(getDealsByStage(stage))
columnCount(stage) == Len(getDealsByStage(stage))

\* The open stages' value and the won value in the page's header.
totalPipelineValue ==
    sumValue(SelectSeq(deals, LAMBDA deal : deal.stage \notin {"closed-won", "closed-lost"}))
wonValue == sumValue(SelectSeq(deals, IsWon))

\* deals.find(d => d.id === id): the first deal of that id, none when there is none.
findDeal(id) ==
    IF \E i \in 1..Len(deals) : deals[i].id = id
    THEN deals[CHOOSE i \in 1..Len(deals) :
                  deals[i].id = id /\ \A j \in 1..(i - 1) : deals[j].id # id]
    ELSE Null

\* event.over of a DragEndEvent: null, or the droppable the card was let go
\* over, a stage container or a card (a card of an id no deal has, once the
\* deal is gone).
Overs ==
    {Null} \cup [kind : {"stage"}, id : StageIds]
           \cup [kind : {"deal"}, id : {deals[i].id : i \in 1..Len(deals)} \cup {ForeignId}]

\* The stage handleDragEnd resolves over to: '' when it resolves to none.
newStageOf(over) ==
    IF over = Null THEN ""
    ELSE IF over.kind = "stage" THEN over.id
    ELSE IF findDeal(over.id) # Null THEN findDeal(over.id).stage
    ELSE ""

\* active.id !== over.id
overIsActive(activeId, over) == over.kind = "deal" /\ over.id = activeId

\* handleDragStart: setActiveDeal(deal || null)
handleDragStart(activeId) ==
    /\ activeDeal' = findDeal(activeId)
    /\ UNCHANGED <<crmVars, now, nextId, lastId, live, last, storage, authVars,
                   searchTerm, statusFilter, priorityFilter, location>>

\* The handler moving the deal whenever a stage is resolved.
dragMovesAlways(activeId, over) ==
    /\ over # Null
    /\ newStageOf(over) # ""
    /\ findDeal(activeId) # Null

\* The handler refusing to move a deal out of a closed stage.
dragMovesOpenOnly(activeId, over) ==
    /\ over # Null
    /\ newStageOf(over) # ""
    /\ ~overIsActive(activeId, over)
    /\ findDeal(activeId) # Null
    /\ findDeal(activeId).stage # newStageOf(over)
    /\ findDeal(activeId).stage \notin {"closed-won", "closed-lost"}

\* The conditions under which handleDragEnd calls updateDeal:
\* over, newStage && active.id !== over.id, deal && deal.stage !== newStage.
dragMoves(activeId, over) ==
    /\ over # Null
    /\ newStageOf(over) # ""
    /\ ~overIsActive(activeId, over)
    /\ findDeal(activeId) # Null
    /\ findDeal(activeId).stage # newStageOf(over)

\* The marker kept when the handler returns early.
markerAfterDrag(over) == IF over = Null THEN activeDeal ELSE Null

\* setActiveDeal(null) on the early return and at the end of the handler.
markerCleared(over) == Null

\* handleDragEnd: updateDeal(deal.id, { stage: newStage }) when the drop moves
\* the deal, then setActiveDeal(null).
handleDragEnd(activeId, over) ==
    /\ activeDeal' = markerCleared(over)
    /\ IF dragMoves(activeId, over)
       THEN /\ deals' = mapUpdate(deals, findDeal(activeId).id, [stage |-> newStageOf(over)], now)
            /\ Called("updateDeal", findDeal(activeId).id, [stage |-> newStageOf(over)], Undefined)
            /\ UNCHANGED <<contacts, leads, tasks>>
            /\ persistCRM
       ELSE UNCHANGED <<crmVars, last, storage>>
    /\ UNCHANGED <<now, nextId, lastId, live, authVars,
                   searchTerm, statusFilter, priorityFilter, location>>

\* --------------------------------------------- the Tasks page, the Dashboard
\* date-fns isAfter(date, dateToCompare) on two clock readings.
isAfter(date, dateToCompare) == date > dateToCompare

\* The test without the status.
isOverdueAnyStatus(task) == isAfter(now, task.dueDate)

\* Tasks: task.status !== 'completed' && isAfter(new Date(), task.dueDate)
isOverdue(task) == task.status # "completed" /\ isAfter(now, task.dueDate)

\* Tasks: tasks.filter(isOverdue)
tasksOverdue == SelectSeq(tasks, isOverdue)

\* Dashboard: tasks.filter(task => task.status !== 'completed' &&
\* isAfter(new Date(), task.dueDate))
overdueTasks ==
    SelectSeq(tasks, LAMBDA task : task.status # "completed" /\ isAfter(now, task.dueDate))

\* handleToggleStatus: updateTask(task.id, { status: newStatus })
handleToggleStatus(task) ==
    updateTask(task.id, [status |-> IF task.status = "completed" THEN "pending" ELSE "completed"])

\* The statuses of a lead and of a task.
AllLeadStatuses == {"new", "qualified", "converted", "lost"}
AllTaskStatuses == {"pending", "in-progress", "completed"}

\* The count of 'new' leaving out the leads that are not new.
leadStatusCountsAllNew ==
    [st \in AllLeadStatuses \cup {"all"} |->
        IF st \in {"all", "new"} THEN Len(leads)
        ELSE Len(SelectSeq(leads, LAMBDA l : l.status = st))]

\* Leads: statusCounts
leadStatusCounts ==
    [st \in AllLeadStatuses \cup {"all"} |->
        IF st = "all" THEN Len(leads)
        ELSE Len(SelectSeq(leads, LAMBDA l : l.status = st))]

\* Tasks: statusCounts
taskStatusCounts ==
    [st \in AllTaskStatuses \cup {"all"} |->
        IF st = "all" THEN Len(tasks)
        ELSE Len(SelectSeq(tasks, LAMBDA t : t.status = st))]

\* ------------- SpecPages: the Pipeline, Leads and Tasks pages on a board
\* The store after one addContact, two addDeal, two addLead and two addTask
\* at clock reading 0 (ids 1..7), and the session of a signed-in user.
Board ==
    /\ contacts = appendRecord(<<>>, newRecord([name |-> "Ann", tags |-> <<>>], 1, 0, 0))
    /\ deals = appendRecord(appendRecord(<<>>,
                   newRecord([stage |-> "prospecting", contactId |-> 1,
                              value |-> 500, closeDate |-> DueDate], 2, 0, 0)),
                   newRecord([stage |-> "prospecting", contactId |-> 1,
                              value |-> 1500, closeDate |-> DueDate], 3, 0, 0))
    /\ leads = appendRecord(appendRecord(<<>>,
                   newRecord([status |-> "new", value |-> Amount], 4, 0, 0)),
                   newRecord([status |-> "new", value |-> Amount], 5, 0, 0))
    /\ tasks = appendRecord(appendRecord(<<>>,
                   newRecord([status |-> "pending", dueDate |-> 0], 6, 0, 0)),
                   newRecord([status |-> "pending", dueDate |-> MaxClock], 7, 0, 0))
    /\ nextId = 8
    /\ lastId = 7

InitPages ==
    /\ Board
    /\ now = 0
    /\ live \in {{"deals"}, {"leads"}, {"tasks"}}
    /\ last = NoCall
    /\ user = mockUser("ann@crm.com")
    /\ isAuthenticated = TRUE
    /\ pending = <<>>
    /\ loginCalls = 1
    /\ storage = [k \in {CrmKey, AuthKey} |->
                    IF k = CrmKey THEN crmSnapshot(contacts, leads, deals, tasks)
                                  ELSE authSnapshot(user, isAuthenticated)]
    /\ PageMounted
    /\ location = IF live = {"deals"} THEN "/pipeline"
                  ELSE IF live = {"leads"} THEN "/leads" ELSE "/tasks"

\* A card is picked up, and let go of over a droppable or over none.
DragStartStep ==
    /\ live = {"deals"}
    /\ activeDeal = Null
    /\ \E i \in 1..Len(deals) : handleDragStart(deals[i].id)
DragEndStep ==
    /\ live = {"deals"}
    /\ activeDeal # Null
    /\ \E over \in Overs : handleDragEnd(activeDeal.id, over)
\* updateDeal(id, { stage }) called on the store itself.
UpdateStageStep ==
    /\ live = {"deals"}
    /\ \E i \in 1..Len(deals), stage \in StageIds : updateDeal(deals[i].id, [stage |-> stage])
\* The lead form and the task form submitted for a record of the list.
EditLeadStep ==
    /\ live = {"leads"}
    /\ \E i \in 1..Len(leads), st \in AllLeadStatuses : updateLead(leads[i].id, [status |-> st])
EditTaskStep ==
    /\ live = {"tasks"}
    /\ \E i \in 1..Len(tasks), st \in AllTaskStatuses, d \in Clock :
          updateTask(tasks[i].id, [status |-> st, dueDate |-> d])
ToggleStatusStep ==
    /\ live = {"tasks"}
    /\ \E i \in 1..Len(tasks) : handleToggleStatus(tasks[i])

NextPages ==
    \/ Tick
    \/ DragStartStep
    \/ DragEndStep
    \/ UpdateStageStep
    \/ EditLeadStep
    \/ EditTaskStep
    \/ ToggleStatusStep

SpecPages == InitPages /\ [][NextPages]_vars

\* ------------------------------------------------------------ the routes
\* The pages routed inside DashboardLayout.
DashboardPaths ==
    {"/dashboard", "/contacts", "/leads", "/pipeline", "/tasks", "/analytics", "/settings"}

\* The paths a browser can be sent to: the routes, and one no route names.
Paths == {"/login", "/"} \cup DashboardPaths \cup {"/reports"}

\* What a route renders: a page, a <Navigate to>, or no page at all.
Page(name) == [kind |-> "page", at |-> name]
Navigate(to) == [kind |-> "navigate", at |-> to]
NoPage == [kind |-> "none", at |-> ""]

\* The routes without the test of isAuthenticated on the dashboard pages.
AppUnguarded(path, authenticated) ==
    IF path = "/login"
    THEN (IF ~authenticated THEN Page("/login") ELSE Navigate("/dashboard"))
    ELSE IF path \in DashboardPaths THEN Page(path)
    ELSE IF path = "/" THEN Navigate("/dashboard")
    ELSE NoPage

\* App: what <Routes> renders at a path: /login, and /* with the pages of the
\* dashboard inside it.
App(path, authenticated) ==
    IF path = "/login"
    THEN (IF ~authenticated THEN Page("/login") ELSE Navigate("/dashboard"))
    ELSE IF authenticated
         THEN (IF path \in DashboardPaths THEN Page(path)
               ELSE IF path = "/" THEN Navigate("/dashboard")
               ELSE NoPage)
         ELSE Navigate("/login")

\* The element on screen.
routed == App(location, isAuthenticated)

\* The address is changed: a link of the layout, or a path typed in.
goTo(path) ==
    /\ location' = path
    /\ UNCHANGED <<crmVars, now, nextId, lastId, live, last, storage, authVars,
                   searchTerm, statusFilter, priorityFilter, activeDeal>>

\* A rendered <Navigate to> replaces the location.
Redirect ==
    /\ routed.kind = "navigate"
    /\ location' = routed.at
    /\ UNCHANGED <<crmVars, now, nextId, lastId, live, last, storage, authVars,
                   searchTerm, statusFilter, priorityFilter, activeDeal>>

\* ------------------ SpecRoutes: the session store behind the routed pages
InitRoutes ==
    /\ Populated
    /\ now = 0
    /\ lastId = 4
    /\ live = {}
    /\ last = NoCall
    /\ storage = [k \in {CrmKey, AuthKey} |->
                    IF k = CrmKey THEN crmSnapshot(contacts, leads, deals, tasks) ELSE Null]
    /\ SignedOut
    /\ PageMounted
    /\ location \in Paths

GoToStep == \E path \in Paths : goTo(path)
\* The login page's form is submitted.
SignInStep == routed = Page("/login") /\ LoginStep
\* The layout's Sign Out button: onClick={logout}
SignOutStep == routed.kind # "navigate" /\ location # "/login" /\ logout

NextRoutes ==
    \/ GoToStep
    \/ Redirect
    \/ SignInStep
    \/ loginResolved
    \/ SignOutStep

SpecRoutes == InitRoutes /\ [][NextRoutes]_vars

\* ------------------------------------------------ reading the collections
AddOp == [contacts |-> "addContact", leads |-> "addLead",
          deals |-> "addDeal", tasks |-> "addTask"]
UpdateOp == [contacts |-> "updateContact", leads |-> "updateLead",
             deals |-> "updateDeal", tasks |-> "updateTask"]
DeleteOp == [contacts |-> "deleteContact", leads |-> "deleteLead",
             deals |-> "deleteDeal", tasks |-> "deleteTask"]

\* Collection c before the step, and after it.
Before(c) ==
    CASE c = "contacts" -> contacts [] c = "leads" -> leads
      [] c = "deals" -> deals [] c = "tasks" -> tasks
After(c) ==
    CASE c = "contacts" -> contacts' [] c = "leads" -> leads'
      [] c = "deals" -> deals' [] c = "tasks" -> tasks'

\* The inputs collection c's add accepts.
InputsOf(c) ==
    CASE c = "contacts" -> ContactInputs [] c = "leads" -> LeadInputs
      [] c = "deals" -> DealInputs [] c = "tasks" -> TaskInputs

\* The step is collection c's add(input), its clock read again at u.
IsAdd(c, input, u) ==
    CASE c = "contacts" -> addContact(input, u) [] c = "leads" -> addLead(input, u)
      [] c = "deals" -> addDeal(input, u) [] c = "tasks" -> addTask(input, u)

\* The step is a call of the store (time passing leaves every collection alone).
UpdateCalled(c) == last'.op = UpdateOp[c] /\ now' = now
DeleteCalled(c) == last'.op = DeleteOp[c] /\ now' = now
AddCalled(c) == last'.op = AddOp[c] /\ nextId' = nextId + 1

Has(xs, id) == \E i \in 1..Len(xs) : xs[i].id = id
OthersUnchanged(c) == \A d \in Collections \ {c} : After(d) = Before(d)
StoreFields == {"id", "createdAt", "updatedAt"}

\* ---------------------------------------------------------------- claims
\* C1: in every reachable state no two records of one collection have the
\* same id.
C1_UniqueIds ==
    \A c \in Collections : \A i, j \in 1..Len(Before(c)) :
        i # j => Before(c)[i].id # Before(c)[j].id

\* C2: an update of an existing record leaves that record's id and createdAt
\* as they were, whatever partial it is given.
C2_IdAndCreatedAtKept ==
    [][\A c \in Collections : UpdateCalled(c) =>
          /\ Len(After(c)) = Len(Before(c))
          /\ \A i \in 1..Len(Before(c)) :
                Before(c)[i].id = last'.id =>
                    /\ After(c)[i].id = Before(c)[i].id
                    /\ After(c)[i].createdAt = Before(c)[i].createdAt]_vars

\* C3: update(id, partial) keeps every field of the records with that id that
\* partial does not name (updatedAt aside), keeps every record with another id
\* as it was and where it was, and keeps the other three collections.
C3_UpdateFrame ==
    [][\A c \in Collections : UpdateCalled(c) =>
          /\ Len(After(c)) = Len(Before(c))
          /\ \A i \in 1..Len(Before(c)) :
                IF Before(c)[i].id = last'.id
                THEN /\ DOMAIN Before(c)[i] \subseteq DOMAIN After(c)[i]
                     /\ \A f \in DOMAIN Before(c)[i] \ (last'.named \cup {"updatedAt"}) :
                            After(c)[i][f] = Before(c)[i][f]
                ELSE After(c)[i] = Before(c)[i]
          /\ OthersUnchanged(c)]_vars

\* C3 witness: updateDeal has just run on the first of two deals, whose stage
\* an update changed, while the other collections hold records.
C3_Witness ==
    /\ last.op = "updateDeal" /\ last.id = 2
    /\ Len(deals) = 2 /\ deals[1].id = 2 /\ deals[1].stage = "closed-won"
    /\ contacts # <<>> /\ leads # <<>> /\ tasks # <<>>

\* C4 as stated: an update of an existing record makes its updatedAt strictly
\* greater, also at the clock reading of the previous stamp.
C4_StrictlyIncreases ==
    [][\A c \in Collections : UpdateCalled(c) =>
          \A i \in 1..Len(Before(c)) :
              Before(c)[i].id = last'.id /\ i <= Len(After(c)) =>
                  After(c)[i].updatedAt > Before(c)[i].updatedAt]_vars

\* C4 amended: an update of an existing record sets its updatedAt to the
\* clock reading of the update, which is never less than the previous
\* updatedAt (and equal to it when the clock has not advanced since).
C4_StampedWithNow ==
    [][\A c \in Collections : UpdateCalled(c) =>
          /\ Len(After(c)) = Len(Before(c))
          /\ \A i \in 1..Len(Before(c)) :
                Before(c)[i].id = last'.id =>
                    /\ After(c)[i].updatedAt = now
                    /\ After(c)[i].updatedAt >= Before(c)[i].updatedAt]_vars

\* C4 witness: updateLead changed the status of the lead created at reading 0
\* while the clock still read 0.
C4_Witness ==
    /\ last.op = "updateLead" /\ last.id = 3
    /\ leads # <<>> /\ leads[1].id = 3 /\ leads[1].status = "converted"
    /\ leads[1].createdAt = 0 /\ leads[1].updatedAt = 0

\* C5: the record an add has just appended has createdAt equal to updatedAt.
C5_CreatedEqualsUpdated ==
    \A c \in Collections :
        (last.op = AddOp[c] /\ Before(c) # <<>> /\ Before(c)[Len(Before(c))].id = last.id)
            => Before(c)[Len(Before(c))].createdAt = Before(c)[Len(Before(c))].updatedAt

\* C6: every record of every collection has updatedAt >= createdAt.
C6_UpdatedNotBeforeCreated ==
    \A c \in Collections : \A i \in 1..Len(Before(c)) :
        Before(c)[i].updatedAt >= Before(c)[i].createdAt

\* C7: update and delete with an id no record of the collection has leave all
\* four collections exactly as they were.
C7_AbsentIdNoOp ==
    [][\A c \in Collections :
          ((UpdateCalled(c) \/ DeleteCalled(c)) /\ ~Has(Before(c), last'.id)) =>
              /\ After(c) = Before(c)
              /\ OthersUnchanged(c)]_vars

\* C7 witness: updateContact has just run, at a later clock reading than the
\* contacts' stamps, with an id none of the contacts has.
C7_Witness ==
    /\ last.op = "updateContact"
    /\ contacts # <<>> /\ ~Has(contacts, last.id)
    /\ now > 0 /\ \A i \in 1..Len(contacts) : contacts[i].updatedAt < now

\* C8: delete(id) removes exactly the records with that id, keeps the others
\* unchanged and in order, and keeps the other three collections: a deal
\* whose contactId is the deleted contact's id stays as it was.
C8_DeleteFrame ==
    [][\A c \in Collections : DeleteCalled(c) =>
          LET xs == Before(c)
              kept == {i \in 1..Len(xs) : xs[i].id # last'.id}
          IN  /\ Len(After(c)) = Cardinality(kept)
              /\ \A i \in kept : After(c)[Cardinality({j \in kept : j <= i})] = xs[i]
              /\ OthersUnchanged(c)]_vars

\* C8 witness: deleteContact has just removed the contact a deal refers to.
C8_Witness ==
    /\ last.op = "deleteContact" /\ last.id = 1
    /\ ~Has(contacts, 1) /\ contacts # <<>>
    /\ \E i \in 1..Len(deals) : deals[i].contactId = 1

\* C9: add makes the collection one longer, puts the new record last, keeps
\* the earlier records as they were and in order; the new record has the
\* caller's fields with the caller's values plus id, createdAt and updatedAt
\* set by the store (an id no earlier record has, the clock's readings).
C9_AddAppends ==
    [][\A c \in Collections : AddCalled(c) =>
          LET xs == Before(c)
              r == After(c)[Len(After(c))]
          IN  /\ Len(After(c)) = Len(xs) + 1
              /\ SubSeq(After(c), 1, Len(xs)) = xs
              /\ r.id = last'.id /\ ~Has(xs, r.id)
              /\ r.createdAt = now /\ r.updatedAt = now'
              /\ \E input \in InputsOf(c) : IsAdd(c, input, now')
              /\ \A input \in InputsOf(c) : IsAdd(c, input, now') =>
                    /\ DOMAIN r = DOMAIN input \cup StoreFields
                    /\ \A f \in DOMAIN input \ StoreFields : r[f] = input[f]]_vars

\* C9 witness: addDeal has just put a second deal after the first.
C9_Witness ==
    /\ last.op = "addDeal"
    /\ Len(deals) = 2 /\ deals[1].id = 2 /\ deals[2].id = last.id

StoredAs(xs, ys) ==
    /\ Len(ys) = Len(xs)
    /\ \A i \in 1..Len(xs) :
          /\ DOMAIN ys[i] = DOMAIN xs[i]
          /\ \A f \in DOMAIN xs[i] :
                IF f \in DateFields THEN IsText(ys[i][f]) /\ ys[i][f] = toJSON(xs[i][f])
                                    ELSE ys[i][f] = xs[i][f]

\* The step is a call of one of the entity store's twelve operations.
StoreCalled == \E c \in Collections : AddCalled(c) \/ UpdateCalled(c) \/ DeleteCalled(c)

Rehydrated == last'.op = "rehydrate" /\ now' = now

\* C12: persisting the collections and rehydrating them yields collections
\* equal to the ones persisted, with every date field (createdAt, updatedAt,
\* Deal.closeDate, Task.dueDate) a Date again, not text.
C12_RoundTrip ==
    [][Rehydrated =>
          \A c \in Collections :
              /\ After(c) = Before(c)
              /\ \A i \in 1..Len(After(c)) :
                    \A f \in DOMAIN After(c)[i] \cap DateFields : IsDate(After(c)[i][f])]_vars

\* The step is the completion of the oldest login under way.
LoginCompletes ==
    /\ pending # <<>> /\ pending' = Tail(pending)
    /\ last'.op = "loginResolved" /\ last'.id = Head(pending).n

\* C13: a login(email, password) that completes returns true and leaves
\* isAuthenticated = true and a user whose email is the one given and whose
\* role is admin exactly for 'admin@crm.com', manager exactly for
\* 'manager@crm.com', salesperson for every other address.
C13_LoginOutcome ==
    [][LoginCompletes =>
          LET email == Head(pending).email
          IN  /\ last'.ret = <<TRUE>>
              /\ isAuthenticated' = TRUE
              /\ user' # Null
              /\ user'.email = email
              /\ (user'.role = "admin") <=> (email = "admin@crm.com")
              /\ (user'.role = "manager") <=> (email = "manager@crm.com")
              /\ (user'.role = "salesperson") <=> (email \notin {"admin@crm.com", "manager@crm.com"})]_vars

\* C13 witness: a login with the manager's address has just completed.
C13_Witness ==
    /\ last.op = "loginResolved" /\ last.ret = <<TRUE>>
    /\ isAuthenticated /\ user # Null /\ user.email = "manager@crm.com" /\ user.role = "manager"

\* C14: what a completed login returns and leaves in the store does not
\* depend on the password: it is what the same call would have returned and
\* left with any other password.
C14_PasswordIgnored ==
    [][LoginCompletes =>
          \A p \in Passwords :
              LET other == loginResult(Head(pending).email, p)
              IN  /\ last'.ret = <<other.ret>>
                  /\ user' = other.user
                  /\ isAuthenticated' = other.isAuthenticated]_vars

\* C14 witness: the first of two logins with one address has completed; the
\* second, made with the empty password, is still under way.
C14_Witness ==
    /\ last.op = "loginResolved" /\ last.id = 1 /\ user # Null
    /\ Len(pending) = 1 /\ pending[1].email = user.email /\ pending[1].password = ""

\* C15: every login call eventually completes, with isAuthenticated = true
\* written by that call, whatever other store operations run meanwhile.
C15_LoginCompletes ==
    \A n \in 1..MaxLogins :
        (\E i \in 1..Len(pending) : pending[i].n = n)
            ~> (last.op = "loginResolved" /\ last.id = n /\ isAuthenticated)

\* C15 witness: the second login has just completed after a logout and a
\* deleteLead ran while logins were under way.
C15_Witness ==
    /\ last.op = "loginResolved" /\ last.id = 2 /\ isAuthenticated
    /\ leads = <<>> /\ pending = <<>>

\* C16: logout, in any state, leaves user = null and isAuthenticated = false
\* and the entity store's four collections as they were.
C16_Logout ==
    [][last'.op = "logout" =>
          /\ user' = Null
          /\ isAuthenticated' = FALSE
          /\ crmVars' = crmVars]_vars

\* C16 witness: logout has just run while a login was under way, the four
\* collections holding records.
C16_Witness ==
    /\ last.op = "logout" /\ pending # <<>>
    /\ user = Null /\ ~isAuthenticated
    /\ contacts # <<>> /\ leads # <<>> /\ deals # <<>> /\ tasks # <<>>

\* C17: updateUser(partial) with no user leaves user = null; with a user it
\* overwrites exactly the fields partial names and keeps the others; in both
\* cases isAuthenticated stays as it was.
C17_UpdateUser ==
    [][last'.op = "updateUser" =>
          /\ isAuthenticated' = isAuthenticated
          /\ \E p \in UserUpdates : updateUser(p)
          /\ IF user = Null
             THEN user' = Null
             ELSE /\ user' # Null
                  /\ \A p \in UserUpdates : updateUser(p) =>
                        /\ DOMAIN user' = DOMAIN user \cup DOMAIN p
                        /\ \A f \in DOMAIN p : user'[f] = p[f]
                        /\ \A f \in DOMAIN user \ DOMAIN p : user'[f] = user[f]]_vars

\* C17 witness: the profile form's { name, email } has just been merged into
\* the user a manager's login made.
C17_Witness ==
    /\ last.op = "updateUser" /\ last.named = {"name", "email"}
    /\ user # Null /\ user.name = "Ann" /\ user.email = "ann@crm.com" /\ user.role = "manager"
    /\ isAuthenticated

\* C17 witness, no user: updateUser was handed { name, email } and there is
\* still no user.
C17_WitnessNoUser ==
    /\ last.op = "updateUser" /\ last.named = {"name", "email"}
    /\ user = Null /\ ~isAuthenticated

\* The letters a and b are the same but for their case.
SameLetter(a, b) == a = b \/ {a, b} \in {{"a", "A"}, {"b", "B"}}

\* term occurs in text, case ignored.
Found(text, term) ==
    \E k \in 0..Len(text) :
        /\ k + Len(term) <= Len(text)
        /\ \A m \in 1..Len(term) : SameLetter(text[k + m], term[m])

\* The active filters of the Tasks page and of the Leads page admit the record.
TaskAdmitted(t) ==
    /\ Found(t.title, searchTerm) \/ Found(t.description, searchTerm)
    /\ statusFilter # "all" => t.status = statusFilter
    /\ priorityFilter # "all" => t.priority = priorityFilter
LeadAdmitted(l) ==
    /\ Found(l.name, searchTerm) \/ Found(l.email, searchTerm) \/ Found(l.company, searchTerm)
    /\ statusFilter # "all" => l.status = statusFilter

\* ys holds exactly the records of xs at the positions kept, in the order of xs.
IsSelection(xs, ys, kept) ==
    /\ Len(ys) = Cardinality(kept)
    /\ \A i \in kept : ys[Cardinality({j \in kept : j <= i})] = xs[i]

\* C18: the filtered task list is exactly the tasks that satisfy all active
\* filters (search term found in title or description, case ignored; status
\* unless 'all'; priority unless 'all'), the filtered lead list exactly the
\* leads that satisfy search (name, email or company) and status; both in the
\* store's order.
C18_FilteredLists ==
    /\ "tasks" \in live =>
          IsSelection(tasks, filteredTasks, {i \in 1..Len(tasks) : TaskAdmitted(tasks[i])})
    /\ "leads" \in live =>
          IsSelection(leads, filteredLeads, {i \in 1..Len(leads) : LeadAdmitted(leads[i])})

\* C18 witness: of two pending high-priority tasks the first is filtered out
\* by the search, which finds 'a' in the second's description only; status
\* and priority filters are set.
C18_Witness ==
    /\ live = {"tasks"} /\ Len(tasks) = 2
    /\ searchTerm = <<"a">> /\ statusFilter = "pending" /\ priorityFilter = "high"
    /\ tasks[1].title = <<"b">> /\ tasks[1].description = <<>>
    /\ tasks[2].title = <<"b">> /\ tasks[2].description = <<"a">>
    /\ filteredTasks = <<tasks[2]>>

\* C19: with an empty divisor collection the figures are 0: the lead
\* conversion rate and the average lead value with no leads, the average deal
\* size with no closed-won deal, the pipeline's won-deal rate with no deals;
\* and no figure is ever the outcome of a division by zero.
C19_ZeroWhenEmpty ==
    /\ leads = <<>> =>
          /\ analyticsConversionRate = Zero
          /\ dashboardConversionRate = Zero
          /\ leadsAvgValue = Zero
    /\ (\A i \in 1..Len(deals) : deals[i].stage # "closed-won") => avgDealSize = Zero
    /\ deals = <<>> => pipelineConversionRate = Zero
    /\ \A q \in {analyticsConversionRate, dashboardConversionRate, leadsAvgValue,
                  avgDealSize, pipelineConversionRate} : q \notin {NaN, Infinity}

\* C19 witness: deleteDeal has just removed the only deal.
C19_Witness ==
    /\ last.op = "deleteDeal" /\ deals = <<>>
    /\ avgDealSize = Zero /\ pipelineConversionRate = Zero

\* C19 witness, leads: deleteLead has just removed the only lead.
C19_WitnessNoLeads ==
    /\ last.op = "deleteLead" /\ leads = <<>>
    /\ analyticsConversionRate = Zero /\ leadsAvgValue = Zero

\* C20: with at least one lead the conversion rate is 100 x converted / total;
\* a store whose one lead was added as new and updated to converted shows 100.
C20_ConversionRate ==
    Len(leads) >= 1 =>
        LET converted == Cardinality({i \in 1..Len(leads) : leads[i].status = "converted"})
        IN  /\ \A q \in {dashboardConversionRate, analyticsConversionRate} :
                  /\ q[2] > 0
                  /\ q[1] * Len(leads) = 100 * converted * q[2]
            /\ (Len(leads) = 1 /\ converted = 1) =>
                  dashboardConversionRate = <<100, 1>> /\ analyticsConversionRate = <<100, 1>>

\* C20 witness: updateLead has just set the only lead, added as new, to
\* converted, and the rate is 100.
C20_Witness ==
    /\ last.op = "updateLead" /\ last.id = 3
    /\ Len(leads) = 1 /\ leads[1].id = 3 /\ leads[1].status = "converted"
    /\ dashboardConversionRate = <<100, 1>>

\* Deal i alone changes its stage in the step, from s to t; no value changes.
StageMoved(i, s, t) ==
    /\ Len(deals') = Len(deals)
    /\ i \in 1..Len(deals)
    /\ deals[i].stage = s /\ deals'[i].stage = t
    /\ \A j \in 1..Len(deals) :
          /\ deals'[j].value = deals[j].value
          /\ j # i => deals'[j].stage = deals[j].stage

\* The sum of the column totals of the given stages, in the order shown.
RECURSIVE sumOfTotals(_)
sumOfTotals(n) == IF n = 0 THEN 0 ELSE totalValue(pipelineStages[n]) + sumOfTotals(n - 1)

\* C21: the value a column shows is the sum of the values of its stage's deals
\* (two prospecting deals of 500 and 1500 show 2000); a step moving one deal
\* from stage s to another stage t lowers s's total by the deal's value, raises
\* t's by the same, and leaves every other column's total and the sum of the
\* six totals as they were.
C21_StageTotals ==
    /\ [](\A s \in StageIds :
            (\A i \in 1..Len(deals) : deals[i].stage = s) =>
                totalValue(s) = sumValue(deals))
    /\ [](/\ Len(deals) = 2
          /\ deals[1].stage = "prospecting" /\ deals[1].value = 500
          /\ deals[2].stage = "prospecting" /\ deals[2].value = 1500
          => totalValue("prospecting") = 2000 /\ totalValue("closed-won") = 0)
    /\ [][\A s \in StageIds : \A t \in StageIds \ {s} : \A i \in 1..Len(deals) :
            StageMoved(i, s, t) =>
                /\ totalValue(s)' = totalValue(s) - deals[i].value
                /\ totalValue(t)' = totalValue(t) + deals[i].value
                /\ \A o \in StageIds \ {s, t} : totalValue(o)' = totalValue(o)
                /\ sumOfTotals(6)' = sumOfTotals(6)]_vars

\* The 1500 deal was dragged from prospecting into the empty closed-won column.
C21_Witness ==
    /\ last.op = "updateDeal" /\ last.id = 3
    /\ activeDeal = Null
    /\ deals[1].stage = "prospecting" /\ deals[2].stage = "closed-won"
    /\ totalValue("prospecting") = 500 /\ totalValue("closed-won") = 1500
    /\ wonValue = 1500 /\ totalPipelineValue = 500

\* The stage a drop names, as <<stage>>, or <<>> when it names none: the stage
\* container itself, else the stage of the deal dropped onto.
TargetStage(over) ==
    IF over = Null THEN <<>>
    ELSE IF over.kind = "stage" THEN <<over.id>>
    ELSE IF \E i \in 1..Len(deals) : deals[i].id = over.id
         THEN <<deals[CHOOSE i \in 1..Len(deals) : deals[i].id = over.id].stage>>
         ELSE <<>>

\* The stage of the deal of the given id.
StageOf(id) == deals[CHOOSE i \in 1..Len(deals) : deals[i].id = id].stage

\* The step calls updateDeal(id, { stage }) and nothing else of the store.
StageUpdateIssued(id, stage) ==
    /\ deals' = [i \in 1..Len(deals) |->
                    IF deals[i].id = id
                    THEN [deals[i] EXCEPT !.stage = stage, !.updatedAt = now]
                    ELSE deals[i]]
    /\ last' = [op |-> "updateDeal", id |-> id, named |-> {"stage"}, ret |-> Undefined]
    /\ storage'[CrmKey].state.deals = stringifyList(deals')
    /\ UNCHANGED <<contacts, leads, tasks>>

\* C22: on drag end the target stage is the drop target itself when that is a
\* stage container, else the stage of the deal dropped onto; updateDeal(id,
\* {stage: target}) is called exactly when a target is resolved and differs from
\* the dragged deal's stage; with no drop target, a drop onto the card itself, an
\* unresolvable target or the same stage, the store is not changed.
C22_DragEnd ==
    [][\A over \in Overs :
          (activeDeal # Null /\ Has(deals, activeDeal.id)
            /\ handleDragEnd(activeDeal.id, over)) =>
              IF TargetStage(over) # <<>> /\ TargetStage(over)[1] # StageOf(activeDeal.id)
              THEN StageUpdateIssued(activeDeal.id, TargetStage(over)[1])
              ELSE UNCHANGED <<crmVars, storage, last>>]_vars

\* The first deal was moved to closed-won at reading 0; at reading 1 the second
\* followed it, as a drop onto the first deal's card makes it.
C22_Witness ==
    /\ Len(deals) = 2
    /\ deals[1].stage = "closed-won" /\ deals[1].updatedAt = 0
    /\ deals[2].stage = "closed-won" /\ deals[2].updatedAt = 1
    /\ last = [op |-> "updateDeal", id |-> 3, named |-> {"stage"}, ret |-> Undefined]
    /\ activeDeal = Null
    /\ now = 1

\* Deal i is being dragged.
Dragged(i) == activeDeal # Null /\ activeDeal.id = deals[i].id

C24_Overdue ==
    /\ [](\A i \in 1..Len(tasks) :
            Has(tasksOverdue, tasks[i].id) <=>
                (tasks[i].status # "completed" /\ tasks[i].dueDate < now))
    /\ [](tasksOverdue = overdueTasks)
    /\ [][\A i \in 1..Len(tasks) :
            (tasks[i].status # "completed" /\ handleToggleStatus(tasks[i])) =>
                /\ tasks'[i].status = "completed"
                /\ tasks'[i].dueDate = tasks[i].dueDate
                /\ ~Has(tasksOverdue', tasks[i].id)
                /\ ~Has(overdueTasks', tasks[i].id)]_vars

\* At reading 1 the first task, due at 0, was marked completed; the second,
\* in progress and due at 0 as well, is the one overdue task.
C24_Witness ==
    /\ now = 1
    /\ Len(tasks) = 2
    /\ tasks[1].status = "completed" /\ tasks[1].dueDate = 0 /\ tasks[1].updatedAt = 1
    /\ tasks[2].status = "in-progress" /\ tasks[2].dueDate = 0
    /\ last = [op |-> "updateTask", id |-> 6, named |-> {"status"}, ret |-> Undefined]
    /\ Len(tasksOverdue) = 1 /\ tasksOverdue[1].id = 7

\* The session goes from signed out to signed in, or gets a user.
SignsIn == (~isAuthenticated /\ isAuthenticated') \/ (user = Null /\ user' # Null)

\* C25: once logout has been called the session stays signed out (isAuthenticated
\* false, user none) until a login invoked after that logout completes; a login
\* pending at the logout cannot sign the session in.  In a state whose last call
\* is the logout no login has been invoked since, so by the claim no step from
\* such a state signs the session in.
C25_LogoutHolds ==
    [][last.op = "logout" => ~SignsIn]_vars

\* C26: in every state reachable by any interleaving of login, logout and
\* updateUser, isAuthenticated is true exactly when user is not none.
C26_AuthenticatedIffUser == isAuthenticated <=> user # Null

\* A second login is under way while the signed-in user's profile was changed.
C26_Witness ==
    /\ last.op = "updateUser" /\ last.named = {"name", "email"}
    /\ isAuthenticated /\ user # Null /\ user.name = "Ann"
    /\ Len(pending) = 1

\* The session was signed out again, and updateUser was called with no user.
C26_WitnessSignedOut ==
    /\ last.op = "updateUser" /\ last.named = {"role"}
    /\ ~isAuthenticated /\ user = Null
    /\ loginCalls = MaxLogins /\ pending = <<>>

\* Contacts.onSubmit with a contact being edited:
\* updateContact(editingContact.id, { ...data, tags: [] })
onSubmitEdit(editingId, data) == updateContact(editingId, Spread(data, [tags |-> <<>>]))

\* What the contact form hands to onSubmit (ContactFormData), the name standing
\* for its six text fields.
ContactFormData == [name : Names]

\* C27: submitting the contact edit form for an existing contact changes only
\* the fields the form carries and updatedAt; the contact's id, createdAt and
\* tags keep the values they had before the edit.
C27_EditKeepsTags ==
    [][\A id \in IdsOf("contacts"), data \in ContactFormData :
          onSubmitEdit(id, data) =>
              /\ Len(contacts') = Len(contacts)
              /\ \A i \in 1..Len(contacts) :
                    contacts[i].id = id =>
                        /\ contacts'[i].id = contacts[i].id
                        /\ contacts'[i].createdAt = contacts[i].createdAt
                        /\ contacts'[i].tags = contacts[i].tags]_vars

\* The step is a logout made from a page of the dashboard.
SignedOutFrom(path) ==
    /\ location = path /\ isAuthenticated
    /\ last'.op = "logout" /\ ~isAuthenticated'
    /\ location' = location

\* C28: what is routed depends on isAuthenticated alone: while it is false no
\* page of the dashboard is rendered and every path but /login leads to /login;
\* while it is true /login leads to /dashboard; a logout from any page of the
\* dashboard leaves a redirect to /login on screen, which ends on the login page.
C28_RoutedByAuthentication ==
    /\ [](~isAuthenticated =>
            /\ \A path \in DashboardPaths : routed # Page(path)
            /\ location # "/login" => routed = Navigate("/login")
            /\ location = "/login" => routed = Page("/login"))
    /\ [](isAuthenticated =>
            /\ location = "/login" => routed = Navigate("/dashboard")
            /\ location \in DashboardPaths => routed = Page(location))
    /\ [][\A path \in DashboardPaths :
            SignedOutFrom(path) =>
                /\ routed = Page(path)
                /\ routed' = Navigate("/login")]_vars
    /\ [][(~isAuthenticated /\ Redirect) =>
            location' = "/login" /\ routed' = Page("/login")]_vars

\* The user signed in, went to the contacts page, signed out there and was
\* taken to the login page.
C28_Witness ==
    /\ last.op = "logout"
    /\ ~isAuthenticated /\ user = Null
    /\ location = "/login" /\ routed = Page("/login")
    /\ storage[AuthKey] = authSnapshot(Null, FALSE)

\* The fields of a deal a drag-and-drop may change.
DragFields == {"stage", "updatedAt"}

\* C29: a completed drag-and-drop changes at most the dragged deal, and of it
\* only stage and updatedAt: every other deal, the dragged deal's other fields,
\* the order of the deals, and the contacts, leads and tasks are unchanged; on
\* every branch of handleDragEnd the marker of the dragged deal is cleared.
C29_DragFrame ==
    /\ [][\A over \in Overs :
            (activeDeal # Null /\ handleDragEnd(activeDeal.id, over)) =>
                /\ activeDeal' = Null
                /\ UNCHANGED <<contacts, leads, tasks>>
                /\ Len(deals') = Len(deals)
                /\ \A i \in 1..Len(deals) :
                      /\ DOMAIN deals'[i] = DOMAIN deals[i]
                      /\ \A f \in DOMAIN deals[i] \ DragFields : deals'[i][f] = deals[i][f]
                      /\ deals[i].id # activeDeal.id => deals'[i] = deals[i]]_vars
    /\ [](activeDeal # Null =>
            \A over \in Overs :
                ENABLED (handleDragEnd(activeDeal.id, over) /\ activeDeal' = Null))

\* The second deal was dragged into closed-lost at reading 1: it alone carries
\* the new stage and stamp, and nothing is marked as dragged any more.
C29_Witness ==
    /\ Len(deals) = 2
    /\ deals[1] = newRecord([stage |-> "prospecting", contactId |-> 1,
                             value |-> 500, closeDate |-> DueDate], 2, 0, 0)
    /\ deals[2] = newRecord([stage |-> "closed-lost", contactId |-> 1,
                             value |-> 1500, closeDate |-> DueDate], 3, 0, 1)
    /\ last = [op |-> "updateDeal", id |-> 3, named |-> {"stage"}, ret |-> Undefined]
    /\ activeDeal = Null

\* The sum of f over the elements of the finite set S.
RECURSIVE sumOver(_, _)
sumOver(f, S) ==
    IF S = {} THEN 0 ELSE LET x == CHOOSE y \in S : TRUE IN f[x] + sumOver(f, S \ {x})

\* C30: each deal is in exactly one of the six pipeline columns and the column
\* counts sum to the number of deals; the per-status counts of the leads (new,
\* qualified, converted, lost) sum to their 'all' count, and so do the
\* per-status counts of the tasks (pending, in-progress, completed).
C30_CountsPartition ==
    /\ \A i \in 1..Len(deals) :
          Cardinality({stage \in StageIds :
              \E k \in 1..columnCount(stage) : getDealsByStage(stage)[k] = deals[i]}) = 1
    /\ sumOver([stage \in StageIds |-> columnCount(stage)], StageIds) = Len(deals)
    /\ leadStatusCounts["all"] = Len(leads)
    /\ sumOver(leadStatusCounts, AllLeadStatuses) = leadStatusCounts["all"]
    /\ taskStatusCounts["all"] = Len(tasks)
    /\ sumOver(taskStatusCounts, AllTaskStatuses) = taskStatusCounts["all"]

\* The deals were dragged into two different columns.
C30_Witness ==
    /\ live = {"deals"}
    /\ last.op = "updateDeal"
    /\ columnCount("negotiation") = 1 /\ columnCount("closed-lost") = 1
    /\ columnCount("prospecting") = 0

\* One lead was qualified and the other lost.
C30_WitnessLeads ==
    /\ live = {"leads"}
    /\ last.op = "updateLead"
    /\ leadStatusCounts = [all |-> 2, new |-> 0, qualified |-> 1, converted |-> 0, lost |-> 1]

\* One task is in progress and the other completed.
C30_WitnessTasks ==
    /\ live = {"tasks"}
    /\ last.op = "updateTask"
    /\ taskStatusCounts = ("all" :> 2) @@ ("pending" :> 0) @@ ("in-progress" :> 1) @@ ("completed" :> 1)

====
